---- MODULE Spec2Model ----
(***************************************************************************)
(* A model of conventor.py: class Conventor, its loader (__init__), its    *)
(* publisher (process), the table renderer (get_rst_table), the index      *)
(* composer (get_index_rst) and the macro resolver (macro_substitute).     *)
(*                                                                         *)
(* Text is a sequence of one-character strings, so that regular-expression *)
(* substitution, sorting by code point, path splitting and suffix/stem     *)
(* extraction are computed character by character, as the code does.       *)
(* A Python dict is a sequence of <<key, value>> pairs with distinct keys, *)
(* in insertion order.                                                     *)
(***************************************************************************)
EXTENDS Integers, Sequences, FiniteSets, TLC

VARIABLES
    root_doc,    \* the root document at input_path, as structured data (never changes)
    pc,          \* position of the run: "parse", "include", "loaded", "process", "publish", "done", "fatal"
    input_data,  \* __init__: the mapping being merged (line 21)
    include,     \* __init__: the include entries still to be visited (line 24)
    macros,      \* self.macros
    sections,    \* self.sections
    tables,      \* self.tables
    todo,        \* process: the items of self.tables still to be visited (line 53)
    opened,      \* the resolved paths of the included files opened so far (line 39)
    merged,      \* per merged key, the source document it was last merged from
    lost,        \* keys of one document overwritten by a key merged from another
    files,       \* the file system under and around output_dir: resolved path -> content
    dirs,        \* the directories of that file system
    writes,      \* the write_text calls made so far, in order
    published,   \* the publish_file call: what the renderer read, or NotPublished
    log,         \* the warnings logged so far, in order
    call,        \* a call of one of the pure methods: its arguments
    ret          \* ... and its return value, once it has returned

pvars == <<root_doc, pc, input_data, include, macros, sections, tables, todo, opened,
           merged, lost, files, dirs, writes, published, log>>
fvars == <<call, ret>>
vars == <<pvars, fvars>>

----------------------------------------------------------------------------
(* Characters and text                                                     *)

\* Code points of the characters the inputs use (Python compares str by code point).
Ord(c) ==
    CASE c = "\n" -> 10  [] c = " " -> 32 [] c = "-" -> 45 [] c = "." -> 46
      [] c = "/" -> 47   [] c = "0" -> 48 [] c = "1" -> 49 [] c = "2" -> 50
      [] c = "A" -> 65   [] c = "B" -> 66 [] c = "C" -> 67 [] c = "T" -> 84
      [] c = "X" -> 88   [] c = "Z" -> 90 [] c = "_" -> 95
      [] c = "a" -> 97   [] c = "b" -> 98 [] c = "c" -> 99 [] c = "d" -> 100
      [] c = "e" -> 101  [] c = "h" -> 104 [] c = "i" -> 105 [] c = "k" -> 107
      [] c = "l" -> 108  [] c = "m" -> 109 [] c = "n" -> 110 [] c = "o" -> 111
      [] c = "p" -> 112  [] c = "q" -> 113 [] c = "r" -> 114 [] c = "s" -> 115
      [] c = "t" -> 116  [] c = "u" -> 117 [] c = "v" -> 118 [] c = "w" -> 119
      [] c = "x" -> 120  [] c = "y" -> 121 [] c = "z" -> 122

\* str < str in Python: lexicographic by code point, a proper prefix first.
RECURSIVE StrLess(_, _)
StrLess(s, t) ==
    IF t = <<>> THEN FALSE
    ELSE IF s = <<>> THEN TRUE
    ELSE IF Head(s) = Head(t) THEN StrLess(Tail(s), Tail(t))
    ELSE Ord(Head(s)) < Ord(Head(t))

\* "".join of a sequence of texts
RECURSIVE Concat(_)
Concat(ss) == IF ss = <<>> THEN <<>> ELSE Head(ss) \o Concat(Tail(ss))

\* c * n
RECURSIVE Repeat(_, _)
Repeat(c, n) == IF n <= 0 THEN <<>> ELSE <<c>> \o Repeat(c, n - 1)

\* s.split(sep), sep one character: always at least one piece
RECURSIVE Split(_, _)
Split(s, sep) ==
    IF \A i \in 1..Len(s) : s[i] # sep THEN <<s>>
    ELSE LET i == CHOOSE j \in 1..Len(s) : s[j] = sep /\ \A k \in 1..(j - 1) : s[k] # sep
         IN  <<SubSeq(s, 1, i - 1)>> \o Split(SubSeq(s, i + 1, Len(s)), sep)

Max(S) == CHOOSE m \in S : \A n \in S : n <= m

----------------------------------------------------------------------------
(* Python dict                                                             *)

DictKeys(d) == [i \in 1..Len(d) |-> d[i][1]]
DictHas(d, k) == \E i \in 1..Len(d) : d[i][1] = k
DictGet(d, k) == d[CHOOSE i \in 1..Len(d) : d[i][1] = k][2]

\* d[k] = v: an existing key keeps its position, a new key goes last
DictSet(d, k, v) ==
    IF DictHas(d, k)
    THEN [i \in 1..Len(d) |-> IF d[i][1] = k THEN <<k, v>> ELSE d[i]]
    ELSE Append(d, <<k, v>>)

\* d.update(e), {**d, **e}
RECURSIVE DictUpdate(_, _)
DictUpdate(d, e) ==
    IF e = <<>> THEN d ELSE DictUpdate(DictSet(d, e[1][1], e[1][2]), Tail(e))

\* d.pop(k), for a key d has: d without its entry
RECURSIVE DictDel(_, _)
DictDel(d, k) ==
    IF d = <<>> THEN <<>>
    ELSE IF d[1][1] = k THEN Tail(d)
    ELSE <<d[1]>> \o DictDel(Tail(d), k)

----------------------------------------------------------------------------
(* YAML values                                                             *)

\* Scalars that are not text are one-token sequences, so that every scalar
\* is a sequence of strings.
YamlTrue == <<"True">>
YamlFalse == <<"False">>

\* Python truth value of a scalar: False and "" are falsy
Truthy(v) == v # YamlFalse /\ v # <<>>

\* A table definition: null, or a mapping (a dict of text to scalar).
Null == [null |-> TRUE, items |-> <<>>]
Mapping(items) == [null |-> FALSE, items |-> items]

k_resort == <<"_", "_", "r", "e", "-", "s", "o", "r", "t", "_", "_">>

----------------------------------------------------------------------------
(* macro_substitute                                                        *)

\* The regular expressions of the inputs are sequences of literal characters
\* and ".", which matches any character but a line break.
MatchAt(find, s, i) ==
    /\ i + Len(find) - 1 <= Len(s)
    /\ \A j \in 1..Len(find) :
          IF find[j] = "." THEN s[i + j - 1] # "\n" ELSE s[i + j - 1] = find[j]

\* re.sub(find, replace, content): the leftmost non-overlapping matches, left to right
RECURSIVE ReSubFrom(_, _, _, _)
ReSubFrom(find, replace, s, i) ==
    IF find = <<>>
    THEN IF i > Len(s) THEN replace
         ELSE replace \o <<s[i]>> \o ReSubFrom(find, replace, s, i + 1)
    ELSE IF i > Len(s) THEN <<>>
    ELSE IF MatchAt(find, s, i)
         THEN replace \o ReSubFrom(find, replace, s, i + Len(find))
         ELSE <<s[i]>> \o ReSubFrom(find, replace, s, i + 1)

re_sub(find, replace, content) == ReSubFrom(find, replace, content, 1)

\* A variant that merges the other way round: {**scope, **everywhere}.
macros_to_process_ScopeFirst(ms, section) ==
    DictUpdate(IF DictHas(ms, section) THEN DictGet(ms, section) ELSE <<>>,
               DictGet(ms, "everywhere"))

\* {**self.macros["everywhere"], **self.macros.get(section, {})}
macros_to_process(ms, section) ==
    DictUpdate(DictGet(ms, "everywhere"),
               IF DictHas(ms, section) THEN DictGet(ms, section) ELSE <<>>)

\* for find, replace in macros_to_process.items(): content = re.sub(find, replace, content)
RECURSIVE ApplyRules(_, _)
ApplyRules(rules, content) ==
    IF rules = <<>> THEN content
    ELSE ApplyRules(Tail(rules), re_sub(rules[1][1], rules[1][2], content))

macro_substitute(ms, content, section) ==
    ApplyRules(macros_to_process(ms, section), content)

----------------------------------------------------------------------------
(* get_rst_table                                                           *)

\* \w of a Python str pattern: letters, digits and the underscore
IsWord(c) == c \notin {"\n", " ", "-", ".", "/"}

\* A variant that strips with "\W+": the underscore stays in the sort key.
SortKey_NonWordOnly(key) == SelectSeq(key, LAMBDA c : IsWord(c))

\* re.sub("[\W_]+", "", key)
SortKey(key) == SelectSeq(key, LAMBDA c : IsWord(c) /\ c # "_")

\* sorted(..., key=...): stable, ascending; xs holds <<sort key, item>> pairs
RECURSIVE InsertSorted(_, _)
InsertSorted(x, ys) ==
    IF ys = <<>> THEN <<x>>
    ELSE IF StrLess(Head(ys)[1], x[1]) THEN <<Head(ys)>> \o InsertSorted(x, Tail(ys))
    ELSE <<x>> \o ys

RECURSIVE SortPairs(_)
SortPairs(xs) ==
    IF xs = <<>> THEN <<>>
    ELSE InsertSorted(xs[1], SortPairs(Tail(xs)))

\* sorted(all_keys, key=lambda key: re.sub("[\W_]+", "", key))
sorted_keys(keys) ==
    LET s == SortPairs([i \in 1..Len(keys) |-> <<SortKey(keys[i]), keys[i]>>])
    IN  [i \in 1..Len(s) |-> s[i][2]]

\* lines 93-96: the keys in the order the rows loop visits them
all_keys(contents) ==
    IF DictHas(contents.items, k_resort) /\ Truthy(DictGet(contents.items, k_resort))
    THEN sorted_keys(DictKeys(contents.items))
    ELSE DictKeys(contents.items)

\* lines 98-110: one row per key but "__re-sort__"
RECURSIVE TableRows(_, _, _)
TableRows(ms, keys, items) ==
    IF keys = <<>> THEN <<>>
    ELSE IF Head(keys) = k_resort THEN TableRows(ms, Tail(keys), items)
    ELSE << <<macro_substitute(ms, Head(keys), "left"),
              macro_substitute(ms, DictGet(items, Head(keys)), "right")>> >>
         \o TableRows(ms, Tail(keys), items)

\* A variant that tests `contents is None`.
NoContents_IsNone(contents) == contents.null

\* `not contents`: None and the empty dict are falsy
NoContents(contents) == contents.null \/ contents.items = <<>>

\* The returned text is kept as what it is made of: the placeholder with the
\* table's name, or the table directive with the rows it frames.
get_rst_table(ms, name, contents) ==
    IF NoContents(contents)
    THEN [kind |-> "placeholder", name |-> name, rows |-> <<>>]
    ELSE [kind |-> "table", name |-> <<>>,
          rows |-> TableRows(ms, all_keys(contents), contents.items)]

----------------------------------------------------------------------------
(* get_index_rst                                                           *)

\* A section is a function from some of "title", "anchor", "contents", "hidden".
Has(section, k) == k \in DOMAIN section

\* line 128
EmptySection(section) == ~Has(section, "title") \/ ~Has(section, "contents")

\* A variant that measures the whole title: len(title).
max_line_length_WholeTitle(title) == Len(title)

\* line 135
max_line_length(title) == Max({Len(l) : l \in {Split(title, "\n")[i] : i \in 1..Len(Split(title, "\n"))}})

\* lines 123-151: what one section appends to output
Fragment(ms, section) ==
    IF EmptySection(section) THEN <<>>
    ELSE LET title    == macro_substitute(ms, section["title"], "title")
             contents == macro_substitute(ms, section["contents"], "contents")
             hidden   == Has(section, "hidden") /\ section["hidden"]
             anchor   == IF Has(section, "anchor") THEN section["anchor"] ELSE <<>>
             rule     == Repeat("-", max_line_length(title))
         IN  (IF hidden THEN <<>>
              ELSE <<"\n">>
                   \o (IF anchor # <<>>
                       THEN <<".", ".", " ", "_">> \o anchor \o <<":">> \o <<"\n", "\n">>
                       ELSE <<>>)
                   \o rule \o <<"\n">> \o title \o <<"\n">> \o rule \o <<"\n", "\n">>)
             \o contents

RECURSIVE get_index_rst(_, _)
get_index_rst(ms, secs) ==
    IF secs = <<>> THEN <<>>
    ELSE Fragment(ms, Head(secs)) \o get_index_rst(ms, Tail(secs))

\* line 129: one warning per section skipped
RECURSIVE index_warnings(_)
index_warnings(secs) ==
    IF secs = <<>> THEN <<>>
    ELSE (IF EmptySection(Head(secs)) THEN <<"empty section">> ELSE <<>>)
         \o index_warnings(Tail(secs))

----------------------------------------------------------------------------
(* pathlib                                                                 *)

\* A path is whether it is absolute and its parts; "" and "." parts are dropped.
Path(str) ==
    [abs   |-> str # <<>> /\ str[1] = "/",
     parts |-> SelectSeq(Split(str, "/"), LAMBDA c : c # <<>> /\ c # <<".">>)]

\* path / str: an absolute right operand replaces the left one
Join(path, str) ==
    IF Path(str).abs THEN Path(str)
    ELSE [abs |-> path.abs, parts |-> path.parts \o Path(str).parts]

\* path.parent
Parent(path) ==
    [abs |-> path.abs, parts |-> SubSeq(path.parts, 1, Len(path.parts) - 1)]

\* The working directory of the run, /w.
Cwd == [abs |-> TRUE, parts |-> << <<"w">> >>]

\* ".." steps up, and the root is its own parent
RECURSIVE Normalize(_, _)
Normalize(parts, acc) ==
    IF parts = <<>> THEN acc
    ELSE IF Head(parts) = <<".", ".">>
         THEN Normalize(Tail(parts), SubSeq(acc, 1, Len(acc) - 1))
         ELSE Normalize(Tail(parts), Append(acc, Head(parts)))

\* path.resolve(), on a file system without symbolic links
Resolve(path) ==
    [abs |-> TRUE,
     parts |-> Normalize(path.parts, IF path.abs THEN <<>> ELSE Cwd.parts)]

\* path.parents: the proper ancestors
Parents(path) ==
    {[abs |-> path.abs, parts |-> SubSeq(path.parts, 1, n)] : n \in 0..(Len(path.parts) - 1)}

\* path.name
Name(path) == IF path.parts = <<>> THEN <<>> ELSE path.parts[Len(path.parts)]

\* name.rfind("."), 0 when there is none (positions count from 1 here)
LastDot(name) ==
    IF \E i \in 1..Len(name) : name[i] = "."
    THEN Max({i \in 1..Len(name) : name[i] = "."})
    ELSE 0

\* path.suffix and path.stem: a leading or a trailing dot starts no suffix
HasSuffix(name) == 1 < LastDot(name) /\ LastDot(name) < Len(name)
Suffix(path) ==
    IF HasSuffix(Name(path)) THEN SubSeq(Name(path), LastDot(Name(path)), Len(Name(path)))
    ELSE <<>>
Stem(path) ==
    IF HasSuffix(Name(path)) THEN SubSeq(Name(path), 1, LastDot(Name(path)) - 1)
    ELSE Name(path)

----------------------------------------------------------------------------
(* The inputs of a run                                                     *)

\* Bound: the most include entries and tables, together, of a root document.
MaxRootEntries == 3

k_include == <<"i", "n", "c", "l", "u", "d", "e">>
k_macros == <<"m", "a", "c", "r", "o", "s">>
k_sections == <<"s", "e", "c", "t", "i", "o", "n", "s">>
k_index == <<"i", "n", "d", "e", "x">>

\* The run is Conventor(Path("p/r.yaml")).process(Path("o")), started in /w.
input_path == Path(<<"p", "/", "r", ".", "y", "a", "m", "l">>)
output_dir == Path(<<"o">>)

\* The files an include entry can name, as the structured data they hold.
\* /w/p is the root document's directory; /w/x.yaml and /e/b.yaml lie
\* outside it. No file is at /w/p/m.yaml.
\*   p/a.yaml {k: {x: "1"}, j: null}   p/s/a.yaml {k: {x: "2"}}   p/n.txt {k: {n: "0"}}
\*   x.yaml {k: {s: "0"}}              /e/b.yaml {k: {s: "2"}}
Disk ==
    (Resolve(Path(<<"p", "/", "a", ".", "y", "a", "m", "l">>)) :> << <<<<"k">>, Mapping(<< <<<<"x">>, <<"1">>>> >>)>>, <<<<"j">>, Null>> >>)
 @@ (Resolve(Path(<<"p", "/", "s", "/", "a", ".", "y", "a", "m", "l">>)) :> << <<<<"k">>, Mapping(<< <<<<"x">>, <<"2">>>> >>)>> >>)
 @@ (Resolve(Path(<<"p", "/", "n", ".", "t", "x", "t">>)) :> << <<<<"k">>, Mapping(<< <<<<"n">>, <<"0">>>> >>)>> >>)
 @@ (Resolve(Path(<<"x", ".", "y", "a", "m", "l">>)) :> << <<<<"k">>, Mapping(<< <<<<"s">>, <<"0">>>> >>)>> >>)
 @@ (Resolve(Path(<<"/", "e", "/", "b", ".", "y", "a", "m", "l">>)) :> << <<<<"k">>, Mapping(<< <<<<"s">>, <<"2">>>> >>)>> >>)

\* The entries an include list is made of:
\* "a.yaml", "s/a.yaml", "n.txt", "../x.yaml", "/e/b.yaml", "m.yaml"
IncludeEntries ==
    { <<"a", ".", "y", "a", "m", "l">>, <<"s", "/", "a", ".", "y", "a", "m", "l">>, <<"n", ".", "t", "x", "t">>, <<".", ".", "/", "x", ".", "y", "a", "m", "l">>, <<"/", "e", "/", "b", ".", "y", "a", "m", "l">>, <<"m", ".", "y", "a", "m", "l">> }

\* The tables a root document can define, by name:
\* "t1", "index", "a/k", "../q", "x/../index", "index.rst/y"
RootTables ==
    << <<<<"t", "1">>, Mapping(<< <<<<"k", "1">>, <<"v", "1">>>> >>)>>,
       <<<<"i", "n", "d", "e", "x">>, Mapping(<< <<<<"i">>, <<"0">>>> >>)>>,
       <<<<"a", "/", "k">>, Mapping(<< <<<<"r">>, <<"0">>>> >>)>>,
       <<<<".", ".", "/", "q">>, Null>>,
       <<<<"x", "/", ".", ".", "/", "i", "n", "d", "e", "x">>, Mapping(<< <<<<"B", "-", "2">>, <<"b">>>>, <<k_resort, YamlTrue>>, <<<<"A", " ", "0">>, <<"a">>>> >>)>>,
       <<<<"i", "n", "d", "e", "x", ".", "r", "s", "t", "/", "y">>, Mapping(<<>>)>> >>

NoRepeat(s) == \A i, j \in 1..Len(s) : i # j => s[i] # s[j]

\* The sequences of at most n members of S
RECURSIVE SeqsUpTo(_, _)
SeqsUpTo(S, n) ==
    IF n = 0 THEN {<<>>}
    ELSE SeqsUpTo(S, n - 1)
         \cup {Append(a, x) : a \in {b \in SeqsUpTo(S, n - 1) : Len(b) = n - 1}, x \in S}

\* The include lists of n entries, and the table lists of at most n tables
IncludeLists(n) == {inc \in SeqsUpTo(IncludeEntries, n) : Len(inc) = n}

TableLists(n) ==
    {[i \in 1..Len(a) |-> RootTables[a[i]]] :
        a \in {b \in SeqsUpTo(1..Len(RootTables), n) : NoRepeat(b)}}

\* macros: {everywhere: {}} and sections: [{title: "X", contents: "hi"}]
RootMacros == << <<"everywhere", <<>>>> >>
RootSections == << [title |-> <<"X">>, contents |-> <<"h", "i">>] >>

\* The root documents: with every reserved key, or with one of them left out
\* (and then no include entries, which that run never reaches or passes).
RootDocs ==
    UNION {{<< <<k_include, inc>>, <<k_macros, RootMacros>>, <<k_sections, RootSections>> >> \o ts :
               inc \in IncludeLists(n), ts \in TableLists(MaxRootEntries - n)} :
           n \in 0..MaxRootEntries}
    \cup {<< <<k_macros, RootMacros>>, <<k_sections, RootSections>> >> \o ts :
             ts \in TableLists(MaxRootEntries - 1)}
    \cup {<< <<k_include, <<>>>>, <<k_sections, RootSections>> >> \o ts :
             ts \in TableLists(MaxRootEntries - 1)}
    \cup {<< <<k_include, <<>>>>, <<k_macros, RootMacros>> >> \o ts :
             ts \in TableLists(MaxRootEntries - 1)}

----------------------------------------------------------------------------
(* The file system the run writes to                                       *)

Warning(kind, about) == [warning |-> kind, about |-> about]

\* The content of a written file: a rendered table or a text.
RstText(text) == [kind |-> "text", name |-> <<>>, rows |-> <<>>, text |-> text]
RstTable(t) == [kind |-> t.kind, name |-> t.name, rows |-> t.rows, text |-> <<>>]

\* The directories path.mkdir(parents=True, exist_ok=True) needs to be
\* directories afterwards: the path and each of its ancestors, as the
\* operating system resolves them.
MkdirNeeds(path) ==
    {Resolve([abs |-> path.abs, parts |-> SubSeq(path.parts, 1, n)]) : n \in 0..Len(path.parts)}

\* mkdir raises when one of them is a file
MkdirFails(path, fs) == \E d \in MkdirNeeds(path) : d \in DOMAIN fs

\* write_text raises when the path is a directory or its directory is missing
WriteFails(path, ds) == Resolve(path) \in ds \/ Resolve(Parent(path)) \notin ds

InitialDirs == {Resolve(output_dir)} \cup Parents(Resolve(output_dir))

----------------------------------------------------------------------------
(* Conventor.__init__                                                      *)

RootSource == Resolve(input_path)

\* line 26
NotYaml(i_path) == Suffix(i_path) # <<".", "y", "a", "m", "l">>

\* A variant that tests against the working directory: Path.cwd() not in i_path.parents.
EscapesParent_Cwd(i_path) == Cwd \notin Parents(i_path)

\* line 32
EscapesParent(i_path) == Resolve(Parent(input_path)) \notin Parents(i_path)

\* A variant that merges the included pairs under their own keys.
Qualified_Bare(i_path, included_data) == included_data

\* lines 41-46: the included pairs under their qualified keys
Qualified(i_path, included_data) ==
    [n \in 1..Len(included_data) |->
        <<Stem(i_path) \o <<"/">> \o included_data[n][1], included_data[n][2]>>]

\* Which document each key of a mapping was last merged from
SourcesOf(d, source) == [n \in 1..Len(d) |-> <<d[n][1], source>>]

\* The keys an update takes from a document other than `source`
Overwritten(prov, update, source) ==
    {[key |-> update[n][1], of |-> DictGet(prov, update[n][1]), by |-> source] :
        n \in {m \in 1..Len(update) :
                  DictHas(prov, update[m][1]) /\ DictGet(prov, update[m][1]) # source}}

\* lines 21-23: parse the root document and pop "include"
Parse ==
    /\ pc = "parse"
    /\ IF DictHas(root_doc, k_include)
       THEN /\ include' = DictGet(root_doc, k_include)
            /\ input_data' = DictDel(root_doc, k_include)
            /\ merged' = SourcesOf(DictDel(root_doc, k_include), RootSource)
            /\ pc' = "include"
       ELSE \* KeyError
            /\ input_data' = root_doc
            /\ merged' = SourcesOf(root_doc, RootSource)
            /\ pc' = "fatal"
            /\ UNCHANGED include
    /\ UNCHANGED <<root_doc, macros, sections, tables, todo, opened, lost,
                   files, dirs, writes, published, log, fvars>>

\* lines 24-46: one pass of the loop over the include entries
Include ==
    /\ pc = "include"
    /\ include # <<>>
    /\ LET i      == Head(include)
           i_path == Resolve(Join(Parent(input_path), i))
           warn1  == IF NotYaml(i_path) THEN <<Warning("not_yaml", i)>> ELSE <<>>
       IN  IF EscapesParent(i_path)
           THEN \* continue
                /\ log' = log \o warn1 \o <<Warning("include_escapes", i)>>
                /\ include' = Tail(include)
                /\ UNCHANGED <<input_data, opened, merged, lost, pc>>
           ELSE IF i_path \notin DOMAIN Disk
           THEN \* open() raises FileNotFoundError
                /\ log' = log \o warn1
                /\ pc' = "fatal"
                /\ UNCHANGED <<input_data, include, opened, merged, lost>>
           ELSE LET update == Qualified(i_path, Disk[i_path])
                IN  /\ log' = log \o warn1
                    /\ opened' = opened \cup {i_path}
                    /\ input_data' = DictUpdate(input_data, update)
                    /\ merged' = DictUpdate(merged, SourcesOf(update, i_path))
                    /\ lost' = lost \cup Overwritten(merged, update, i_path)
                    /\ include' = Tail(include)
                    /\ UNCHANGED pc
    /\ UNCHANGED <<root_doc, macros, sections, tables, todo,
                   files, dirs, writes, published, fvars>>

\* lines 48-50: pop "macros" and "sections"; the rest are the tables
Pop ==
    /\ pc = "include"
    /\ include = <<>>
    /\ IF DictHas(input_data, k_macros) /\ DictHas(input_data, k_sections)
       THEN /\ macros' = DictGet(input_data, k_macros)
            /\ sections' = DictGet(input_data, k_sections)
            /\ tables' = DictDel(DictDel(input_data, k_macros), k_sections)
            /\ input_data' = DictDel(DictDel(input_data, k_macros), k_sections)
            /\ pc' = "loaded"
       ELSE \* KeyError
            /\ pc' = "fatal"
            /\ UNCHANGED <<macros, sections, tables, input_data>>
    /\ UNCHANGED <<root_doc, include, todo, opened, merged, lost,
                   files, dirs, writes, published, log, fvars>>

----------------------------------------------------------------------------
(* Conventor.process                                                       *)

\* line 61
rst_table_path(table) == Join(output_dir, table \o <<".", "r", "s", "t">>)

\* A variant that tests the path as written: output_dir not in rst_table_path.parents.
EscapesOutput_Unresolved(path) == output_dir \notin Parents(path)

\* line 64
EscapesOutput(path) == Resolve(output_dir) \notin Parents(Resolve(path))

index_rst_path == Join(output_dir, <<"i", "n", "d", "e", "x", ".", "r", "s", "t">>)
index_html_path == Join(output_dir, <<"i", "n", "d", "e", "x", ".", "h", "t", "m", "l">>)

\* line 53: process(output_dir) starts its loop over self.tables.items()
Process ==
    /\ pc = "loaded"
    /\ todo' = tables
    /\ pc' = "process"
    /\ UNCHANGED <<root_doc, input_data, include, macros, sections, tables, opened,
                   merged, lost, files, dirs, writes, published, log, fvars>>

\* lines 53-71: one pass of the loop over the tables
ProcessTable ==
    /\ pc = "process"
    /\ todo # <<>>
    /\ LET table    == Head(todo)[1]
           contents == Head(todo)[2]
           path     == rst_table_path(table)
           warn     == IF EscapesOutput(path)
                       THEN <<Warning("table_escapes", table)>> ELSE <<>>
           text     == RstTable(get_rst_table(macros, table, contents))
       IN  IF table = k_index
           THEN \* continue
                /\ log' = Append(log, Warning("index_table", table))
                /\ todo' = Tail(todo)
                /\ UNCHANGED <<files, dirs, writes, pc>>
           ELSE IF MkdirFails(Parent(path), files)
           THEN /\ log' = log \o warn
                /\ pc' = "fatal"
                /\ UNCHANGED <<files, dirs, writes, todo>>
           ELSE IF WriteFails(path, dirs \cup MkdirNeeds(Parent(path)))
           THEN /\ log' = log \o warn
                /\ dirs' = dirs \cup MkdirNeeds(Parent(path))
                /\ pc' = "fatal"
                /\ UNCHANGED <<files, writes, todo>>
           ELSE /\ log' = log \o warn
                /\ dirs' = dirs \cup MkdirNeeds(Parent(path))
                /\ files' = (Resolve(path) :> text) @@ files
                /\ writes' = Append(writes, [index |-> FALSE, table |-> table,
                                             to |-> Resolve(path), text |-> text])
                /\ todo' = Tail(todo)
                /\ UNCHANGED pc
    /\ UNCHANGED <<root_doc, input_data, include, macros, sections, tables, opened,
                   merged, lost, published, fvars>>

\* A variant that leaves an index.rst that is already there.
ProcessIndex_KeepExisting ==
    /\ pc = "process"
    /\ todo = <<>>
    /\ log' = log \o index_warnings(sections)
    /\ IF WriteFails(index_rst_path, dirs)
       THEN /\ pc' = "fatal"
            /\ UNCHANGED <<files, writes>>
       ELSE IF Resolve(index_rst_path) \in DOMAIN files
       THEN /\ pc' = "publish"
            /\ UNCHANGED <<files, writes>>
       ELSE /\ files' = (Resolve(index_rst_path) :> RstText(get_index_rst(macros, sections))) @@ files
            /\ writes' = Append(writes, [index |-> TRUE, table |-> <<>>,
                                         to |-> Resolve(index_rst_path),
                                         text |-> RstText(get_index_rst(macros, sections))])
            /\ pc' = "publish"
    /\ UNCHANGED <<root_doc, input_data, include, macros, sections, tables, todo, opened,
                   merged, lost, dirs, published, fvars>>

\* line 74: compose the index and write it to output_dir / "index.rst"
ProcessIndex ==
    /\ pc = "process"
    /\ todo = <<>>
    /\ log' = log \o index_warnings(sections)
    /\ IF WriteFails(index_rst_path, dirs)
       THEN /\ pc' = "fatal"
            /\ UNCHANGED <<files, writes>>
       ELSE /\ files' = (Resolve(index_rst_path) :> RstText(get_index_rst(macros, sections))) @@ files
            /\ writes' = Append(writes, [index |-> TRUE, table |-> <<>>,
                                         to |-> Resolve(index_rst_path),
                                         text |-> RstText(get_index_rst(macros, sections))])
            /\ pc' = "publish"
    /\ UNCHANGED <<root_doc, input_data, include, macros, sections, tables, todo, opened,
                   merged, lost, dirs, published, fvars>>

\* lines 76-80: the renderer reads index.rst and writes index.html
Publish ==
    /\ pc = "publish"
    /\ IF WriteFails(index_html_path, dirs)
       THEN /\ pc' = "fatal"
            /\ UNCHANGED <<files, published>>
       ELSE /\ published' = <<[source_path |-> Resolve(index_rst_path),
                               destination_path |-> Resolve(index_html_path),
                               read |-> files[Resolve(index_rst_path)]]>>
            /\ files' = (Resolve(index_html_path) :>
                            [kind |-> "html", name |-> <<>>, rows |-> <<>>,
                             text |-> files[Resolve(index_rst_path)].text]) @@ files
            /\ pc' = "done"
    /\ UNCHANGED <<root_doc, input_data, include, macros, sections, tables, todo, opened,
                   merged, lost, dirs, writes, log, fvars>>

----------------------------------------------------------------------------
(* The run: load, then publish                                             *)

Idle == <<>>

Init ==
    /\ root_doc \in RootDocs
    /\ pc = "parse"
    /\ input_data = <<>>
    /\ include = <<>>
    /\ macros = <<>>
    /\ sections = <<>>
    /\ tables = <<>>
    /\ todo = <<>>
    /\ opened = {}
    /\ merged = <<>>
    /\ lost = {}
    /\ files = <<>>
    /\ dirs = InitialDirs
    /\ writes = <<>>
    /\ published = <<>>
    /\ log = <<>>
    /\ call = Idle
    /\ ret = Idle

Next ==
    \/ Parse
    \/ Include
    \/ Pop
    \/ Process
    \/ ProcessTable
    \/ ProcessIndex
    \/ Publish

Spec == Init /\ [][Next]_vars

----------------------------------------------------------------------------
(* The methods on their own: one call with bounded arguments               *)

\* No run is in progress: only `call` and `ret` are in use.
NoRun ==
    /\ root_doc = <<>>
    /\ pc = "idle"
    /\ input_data = <<>>
    /\ include = <<>>
    /\ macros = <<>>
    /\ sections = <<>>
    /\ tables = <<>>
    /\ todo = <<>>
    /\ opened = {}
    /\ merged = <<>>
    /\ lost = {}
    /\ files = <<>>
    /\ dirs = {}
    /\ writes = <<>>
    /\ published = <<>>
    /\ log = <<>>

\* Bounds: the most rows of a table, rules of a macro scope, sections of an index.
MaxRows == 3
MaxRules == 2
MaxSections == 2

\* get_rst_table ---------------------------------------------------------

\* Row keys "B-2", "a_1", "A 0", "a_c", "ab", "a-b", and the value of each.
RowKeys == << <<"B", "-", "2">>, <<"a", "_", "1">>, <<"A", " ", "0">>, <<"a", "_", "c">>, <<"a", "b">>, <<"a", "-", "b">> >>
RowValues == << <<"b">>, <<"a">>, <<"c">>, <<"x">>, <<"y">>, <<"z">> >>

RowLists ==
    {[i \in 1..Len(a) |-> <<RowKeys[a[i]], RowValues[a[i]]>>] :
        a \in {b \in SeqsUpTo(1..Len(RowKeys), MaxRows) : NoRepeat(b)}}

\* Each row list without "__re-sort__", and with it true or false, first or last
TableDefinitions ==
    {Null}
    \cup {Mapping(rows) : rows \in RowLists}
    \cup {Mapping(<< <<k_resort, v>> >> \o rows) : rows \in RowLists, v \in {YamlTrue, YamlFalse}}
    \cup {Mapping(rows \o << <<k_resort, YamlTrue>> >>) : rows \in RowLists}

TableMacros ==
    { << <<"everywhere", <<>>>> >>,
      << <<"everywhere", << <<<<"a">>, <<"Z">>>> >>>>,
         <<"left", << <<<<"-">>, <<"_">>>>, <<<<"B">>, <<"z">>>> >>>>,
         <<"right", << <<<<"Z">>, <<"1">>>> >>>> >> }

TableCalls ==
    [fn : {"get_rst_table"}, ms : TableMacros, name : {<<"t", "1">>, <<"x", "/", "y">>}, contents : TableDefinitions]

InitTable == NoRun /\ call \in TableCalls /\ ret = Idle

Return_get_rst_table ==
    /\ call.fn = "get_rst_table"
    /\ ret = Idle
    /\ ret' = <<get_rst_table(call.ms, call.name, call.contents)>>
    /\ UNCHANGED <<call, pvars>>

NextTable == Return_get_rst_table

SpecTable == InitTable /\ [][NextTable]_vars

\* macro_substitute ------------------------------------------------------

Rules == { <<<<"a">>, <<"b">>>>, <<<<"b">>, <<"c">>>>, <<<<"a">>, <<"c">>>>, <<<<"b">>, <<"a">>>>, <<<<".">>, <<"b">>>> }

\* The dicts of at most MaxRules rules: no pattern twice
RuleDicts ==
    {d \in SeqsUpTo(Rules, MaxRules) : \A i, j \in 1..Len(d) : i # j => d[i][1] # d[j][1]}

MacroSets ==
    {<< <<"everywhere", e>> >> : e \in RuleDicts}
    \cup {<< <<"everywhere", e>>, <<"title", t>> >> : e \in RuleDicts, t \in RuleDicts}

MacroCalls ==
    [fn : {"macro_substitute"}, ms : MacroSets,
     content : { <<>>, <<"a">>, <<"c">>, <<"a", "b">>, <<"b", "a">>, <<"a", "\n", "b">> }, section : {"title", "left"}]

InitMacro == NoRun /\ call \in MacroCalls /\ ret = Idle

Return_macro_substitute ==
    /\ call.fn = "macro_substitute"
    /\ ret = Idle
    /\ ret' = <<macro_substitute(call.ms, call.content, call.section)>>
    /\ UNCHANGED <<call, pvars>>

NextMacro == Return_macro_substitute

SpecMacro == InitMacro /\ [][NextMacro]_vars

\* get_index_rst ---------------------------------------------------------

Sections ==
    { [title |-> <<"T">>, contents |-> <<"C">>, hidden |-> TRUE],
      [title |-> <<"T">>, contents |-> <<"C">>, hidden |-> FALSE],
      [title |-> <<"T">>, contents |-> <<"C">>],
      [title |-> <<"a", "b", "\n", "a", "b", "c">>, contents |-> <<"h", "i", "\n">>, anchor |-> <<"x">>],
      [title |-> <<"T">>, contents |-> <<"C">>, anchor |-> <<>>],
      [title |-> <<"a", "b">>, contents |-> <<>>, anchor |-> <<"x">>, hidden |-> TRUE],
      [title |-> <<>>, contents |-> <<"C">>],
      [contents |-> <<"C">>, anchor |-> <<"x">>],
      [title |-> <<"T">>, hidden |-> FALSE] }

IndexMacros ==
    { << <<"everywhere", <<>>>> >>,
      << <<"everywhere", << <<<<"C">>, <<"a", "b">>>> >>>>,
         <<"title", << <<<<"b">>, <<"b", "b", "\n">>>> >>>>,
         <<"contents", << <<<<"b">>, <<"\n">>>> >>>> >> }

IndexCalls == [fn : {"get_index_rst"}, ms : IndexMacros, sections : SeqsUpTo(Sections, MaxSections)]

InitIndex == NoRun /\ call \in IndexCalls /\ ret = Idle

Return_get_index_rst ==
    /\ call.fn = "get_index_rst"
    /\ ret = Idle
    /\ ret' = <<[output   |-> get_index_rst(call.ms, call.sections),
                 warnings |-> index_warnings(call.sections)]>>
    /\ UNCHANGED <<call, pvars>>

NextIndex == Return_get_index_rst

SpecIndex == InitIndex /\ [][NextIndex]_vars

----------------------------------------------------------------------------
(* Properties of get_rst_table (under SpecTable)                           *)

Returned(fn) == call # Idle /\ call.fn = fn /\ ret # Idle

LettersAndDigits ==
    {"0", "1", "2", "A", "B", "C", "T", "X", "Z", "a", "b", "c", "d", "e", "h", "i", "k",
     "l", "m", "n", "o", "p", "q", "r", "s", "t", "u", "v", "w", "x", "y", "z"}

\* The raw key without every character that is not a letter, a digit or an underscore
StripKeepingUnderscore(key) == SelectSeq(key, LAMBDA c : c \in LettersAndDigits \cup {"_"})

\* The raw key without every character that is not a letter or a digit
StripToLettersAndDigits(key) == SelectSeq(key, LAMBDA c : c \in LettersAndDigits)

\* The keys that become rows, in insertion order
RowKeysOf(contents) == SelectSeq(DictKeys(contents.items), LAMBDA k : k # k_resort)

Orderings(keys) ==
    {[i \in 1..Len(keys) |-> keys[p[i]]] :
        p \in {q \in [1..Len(keys) -> 1..Len(keys)] : NoRepeat(q)}}

Ascending(ks, K(_)) == \A i, j \in 1..Len(ks) : i < j => ~StrLess(K(ks[j]), K(ks[i]))

\* The rows are those of the keys ks, in that order, each after substitution
RowsFollow(ks) ==
    ret[1].rows = [i \in 1..Len(ks) |->
                      <<macro_substitute(call.ms, ks[i], "left"),
                        macro_substitute(call.ms, DictGet(call.contents.items, ks[i]), "right")>>]

ResortAsked(contents) ==
    DictHas(contents.items, k_resort) /\ DictGet(contents.items, k_resort) = YamlTrue

RowsOrderedBy(K(_)) ==
    (Returned("get_rst_table") /\ ret[1].kind = "table") =>
        IF ResortAsked(call.contents)
        THEN \E ks \in Orderings(RowKeysOf(call.contents)) : Ascending(ks, K) /\ RowsFollow(ks)
        ELSE RowsFollow(RowKeysOf(call.contents))

\* C4 as stated: with `__re-sort__` truthy the rows are in ascending order of
\* the raw key stripped of every character that is not a letter, a digit or
\* an underscore (underscores kept); otherwise in insertion order.
C4_SortKeyKeepsUnderscore == RowsOrderedBy(StripKeepingUnderscore)

\* C4 amended: with `__re-sort__` truthy the rows are in ascending order of
\* the raw key stripped of every character that is not a letter or a digit
\* (underscores are stripped too), so that keys "B-2", "a_1", "A 0" come out
\* as "A 0", "B-2", "a_1"; otherwise the rows keep the insertion order.
C4_SortKeyLettersAndDigits ==
    /\ RowsOrderedBy(StripToLettersAndDigits)
    /\ (/\ Returned("get_rst_table")
        /\ ResortAsked(call.contents)
        /\ RowKeysOf(call.contents) = << <<"B", "-", "2">>, <<"a", "_", "1">>, <<"A", " ", "0">> >>)
       => RowsFollow(<< <<"A", " ", "0">>, <<"B", "-", "2">>, <<"a", "_", "1">> >>)

\* C4 witness: a re-sorted table returned whose order the underscore decides:
\* "ab" is emitted before "a_c".
C4_Witness ==
    /\ Returned("get_rst_table")
    /\ ResortAsked(call.contents)
    /\ call.ms = << <<"everywhere", <<>>>> >>
    /\ RowKeysOf(call.contents) = << <<"a", "_", "c">>, <<"a", "b">> >>
    /\ ret[1].rows = << <<<<"a", "b">>, <<"y">>>>, <<<<"a", "_", "c">>, <<"x">>>> >>

\* C5 as stated: the placeholder (with the table's name) is returned if and
\* only if the definition is null; every mapping, the empty one included,
\* gives the table block with one row per key other than `__re-sort__`.
C5_PlaceholderIffNull ==
    Returned("get_rst_table") =>
        /\ ret[1].kind = "placeholder" <=> call.contents.null
        /\ ret[1].kind = "placeholder" => ret[1].name = call.name
        /\ ~call.contents.null =>
              /\ ret[1].kind = "table"
              /\ Len(ret[1].rows) = Len(RowKeysOf(call.contents))

\* C5 amended: the placeholder (with the table's name) is returned if and
\* only if the definition is null or an empty mapping; every non-empty
\* mapping gives the table block with one row per key other than `__re-sort__`.
C5_PlaceholderIffNullOrEmpty ==
    Returned("get_rst_table") =>
        /\ ret[1].kind = "placeholder" <=> (call.contents.null \/ Len(call.contents.items) = 0)
        /\ ret[1].kind = "placeholder" => ret[1].name = call.name
        /\ (~call.contents.null /\ Len(call.contents.items) > 0) =>
              /\ ret[1].kind = "table"
              /\ Len(ret[1].rows) = Len(RowKeysOf(call.contents))

\* C5 witness: the empty mapping has returned the placeholder.
C5_Witness ==
    /\ Returned("get_rst_table")
    /\ ~call.contents.null
    /\ call.contents.items = <<>>
    /\ ret[1].kind = "placeholder"

----------------------------------------------------------------------------
(* Properties of macro_substitute (under SpecMacro)                        *)

RulesOf(ms, scope) ==
    IF \E i \in 1..Len(ms) : ms[i][1] = scope
    THEN ms[CHOOSE i \in 1..Len(ms) : ms[i][1] = scope][2]
    ELSE <<>>

\* The `everywhere` rules, each replaced by the scope's rule for the same
\* pattern when there is one, then the scope's rules for other patterns.
Overlaid(ms, scope) ==
    LET every == RulesOf(ms, "everywhere")
        own   == RulesOf(ms, scope)
    IN  [i \in 1..Len(every) |->
            IF \E j \in 1..Len(own) : own[j][1] = every[i][1]
            THEN own[CHOOSE j \in 1..Len(own) : own[j][1] = every[i][1]]
            ELSE every[i]]
        \o SelectSeq(own, LAMBDA r : \A i \in 1..Len(every) : every[i][1] # r[1])

\* Rule n applied to the output of rule n - 1, from the text on
FoldOver(rules, text) ==
    LET out[n \in 0..Len(rules)] ==
            IF n = 0 THEN text ELSE re_sub(rules[n][1], rules[n][2], out[n - 1])
    IN  out[Len(rules)]

Occurs(find, text) == \E i \in 1..Len(text) : MatchAt(find, text, i)

\* C7: substitute(text, scope) is the left-to-right fold of find-and-replace
\* over the `everywhere` rules overlaid by the scope's rules; rules
\* {"a"->"b", "b"->"c"} applied to "a" give "c"; rules without a match leave
\* the text unchanged.
C7_SequentialFoldOverMergedRules ==
    Returned("macro_substitute") =>
        /\ ret[1] = FoldOver(Overlaid(call.ms, call.section), call.content)
        /\ (/\ Overlaid(call.ms, call.section) = << <<<<"a">>, <<"b">>>>, <<<<"b">>, <<"c">>>> >>
            /\ call.content = <<"a">>)
           => ret[1] = <<"c">>
        /\ (\A n \in 1..Len(Overlaid(call.ms, call.section)) :
               ~Occurs(Overlaid(call.ms, call.section)[n][1], call.content))
           => ret[1] = call.content

\* C7 witness: a scope that replaces one `everywhere` rule and adds another,
\* the added rule rewriting what the earlier rules produced.
C7_Witness ==
    /\ Returned("macro_substitute")
    /\ call.section = "title"
    /\ call.ms = << <<"everywhere", << <<<<"a">>, <<"b">>>>, <<<<"b">>, <<"a">>>> >>>>,
                    <<"title", << <<<<"a">>, <<"c">>>>, <<<<".">>, <<"b">>>> >>>> >>
    /\ call.content = <<"a", "b">>
    /\ ret[1] = <<"b", "b">>

----------------------------------------------------------------------------
(* Properties of get_index_rst (under SpecIndex)                           *)

\* The length of the longest line of a text: of its longest run without a line break
LongestLine(text) ==
    Max({n \in 0..Len(text) :
            \E from \in 1..(Len(text) - n + 1) :
                \A i \in from..(from + n - 1) : text[i] # "\n"})

Dashes(n) == [i \in 1..n |-> "-"]

\* A section is hidden when `hidden` is given and true, and has an anchor
\* when `anchor` is given and not empty.
IsHidden(section) == "hidden" \in DOMAIN section /\ section.hidden = TRUE
HasAnchor(section) == "anchor" \in DOMAIN section /\ Len(section.anchor) > 0

\* The fragment of one section
FragmentOf(ms, section) ==
    IF "title" \notin DOMAIN section \/ "contents" \notin DOMAIN section THEN <<>>
    ELSE LET t == macro_substitute(ms, section.title, "title")
             c == macro_substitute(ms, section.contents, "contents")
         IN  IF IsHidden(section) THEN c
             ELSE Concat(<< <<"\n">>,
                            IF HasAnchor(section)
                            THEN Concat(<< <<".", ".", " ", "_">>, section.anchor, <<":", "\n">>, <<"\n">> >>)
                            ELSE <<>>,
                            Dashes(LongestLine(t)), <<"\n">>,
                            t, <<"\n">>,
                            Dashes(LongestLine(t)), <<"\n">>,
                            <<"\n">>,
                            c >>)

\* C8: compose(sections) is the concatenation, in input order, of one
\* fragment per section: nothing (and a warning) when title or contents is
\* missing; the substituted contents alone when hidden; otherwise a blank
\* line, the anchor marker and a blank line if the section has an anchor, a
\* rule of dashes as wide as the longest line of the substituted title, the
\* title, the same rule, a blank line and the substituted contents. Hidden
\* {title: "T", contents: "C"} gives exactly "C".
C8_IndexIsConcatenatedFragments ==
    Returned("get_index_rst") =>
        /\ ret[1].output =
              Concat([i \in 1..Len(call.sections) |-> FragmentOf(call.ms, call.sections[i])])
        /\ Len(ret[1].warnings) =
              Cardinality({i \in 1..Len(call.sections) :
                              "title" \notin DOMAIN call.sections[i]
                              \/ "contents" \notin DOMAIN call.sections[i]})
        /\ (/\ call.sections = << [title |-> <<"T">>, contents |-> <<"C">>, hidden |-> TRUE] >>
            /\ call.ms = << <<"everywhere", <<>>>> >>)
           => ret[1].output = <<"C">>
        /\ (/\ call.sections = << [title |-> <<"T">>, contents |-> <<"C">>, hidden |-> FALSE] >>
            /\ call.ms = << <<"everywhere", <<>>>> >>)
           => ret[1].output = <<"\n", "-", "\n", "T", "\n", "-", "\n", "\n", "C">>

\* C8 witness: an anchored section with a title of two lines, then a hidden one.
C8_Witness ==
    /\ Returned("get_index_rst")
    /\ call.ms = << <<"everywhere", <<>>>> >>
    /\ call.sections = << [title |-> <<"a", "b", "\n", "a", "b", "c">>, contents |-> <<"h", "i", "\n">>, anchor |-> <<"x">>],
                          [title |-> <<"T">>, contents |-> <<"C">>, hidden |-> TRUE] >>
    /\ ret[1].output = <<"\n", ".", ".", " ", "_", "x", ":", "\n", "\n", "-", "-", "-", "\n", "a", "b", "\n", "a", "b", "c", "\n", "-", "-", "-", "\n", "\n", "h", "i", "\n", "C">>

----------------------------------------------------------------------------
(* Properties of the loader (under Spec)                                   *)

\* A resolved path lies within a directory: below it, not the directory itself
Within(path, dir) ==
    /\ Len(path.parts) > Len(dir.parts)
    /\ SubSeq(path.parts, 1, Len(dir.parts)) = dir.parts

RootDirectory == [abs |-> TRUE, parts |-> << <<"w">>, <<"p">> >>]
OutputDirectory == [abs |-> TRUE, parts |-> << <<"w">>, <<"o">> >>]

\* The resolved absolute path of an include entry
Target(entry) == Resolve(Join(RootDirectory, entry))

EndsWith(name, tail) ==
    Len(name) >= Len(tail) /\ SubSeq(name, Len(name) - Len(tail) + 1, Len(name)) = tail

\* The include list of the root document, and the entries the loop is past
Listed == IF DictHas(root_doc, k_include) THEN DictGet(root_doc, k_include) ELSE <<>>
Visited == IF pc = "parse" THEN <<>> ELSE SubSeq(Listed, 1, Len(Listed) - Len(include))

WarningsOf(kind) == SelectSeq(log, LAMBDA w : w.warning = kind)
About(ws) == [n \in 1..Len(ws) |-> ws[n].about]

\* The root document of the end-to-end scenario: no `include` key
\* {macros: {everywhere: {}}, sections: [{title: "X", contents: "hi"}], t1: {k1: "v1"}}
ScenarioDoc ==
    << <<k_macros, << <<"everywhere", <<>>>> >>>>,
       <<k_sections, << [title |-> <<"X">>, contents |-> <<"h", "i">>] >>>>,
       <<<<"t", "1">>, Mapping(<< <<<<"k", "1">>, <<"v", "1">>>> >>)>> >>

\* C1: a root document without an `include` key loads as one with no
\* includes: the run on the scenario's document has no fatal error, and once
\* it is over t1.rst holds the row k1/v1, index.rst the heading X and then
\* hi, and the renderer was handed index.rst for index.html.
C1_LoadsWithoutIncludeKey ==
    root_doc = ScenarioDoc =>
        /\ pc # "fatal"
        /\ pc = "done" =>
              /\ files[Resolve(Join(OutputDirectory, <<"t", "1", ".", "r", "s", "t">>))].rows = << <<<<"k", "1">>, <<"v", "1">>>> >>
              /\ files[Resolve(Join(OutputDirectory, <<"i", "n", "d", "e", "x", ".", "r", "s", "t">>))].text = <<"\n", "-", "\n", "X", "\n", "-", "\n", "\n", "h", "i">>
              /\ published # <<>>

\* C2: an include entry whose resolved file does not end in .yaml is skipped
\* with a warning: it is never opened and no key is merged from it.
C2_NonYamlIncludeSkipped ==
    /\ \A path \in opened : EndsWith(Name(path), <<".", "y", "a", "m", "l">>)
    /\ \A n \in 1..Len(merged) :
          merged[n][2] # RootSource => EndsWith(Name(merged[n][2]), <<".", "y", "a", "m", "l">>)

\* C3: an include entry whose resolved path is not within the root
\* document's directory is skipped with a warning: it is never opened, no key
\* is merged from it, the loop goes on to the later entries (every visited
\* entry within the directory has been opened, and the load stops at an entry
\* only when that entry is within the directory and has no file), and so every
\* key merged from an include comes from a file under that directory.
C3_EscapingIncludeSkipped ==
    /\ opened = {Target(Visited[n]) : n \in {m \in 1..Len(Visited) : Within(Target(Visited[m]), RootDirectory)}}
    /\ \A n \in 1..Len(merged) :
          merged[n][2] # RootSource => Within(merged[n][2], RootDirectory)
    /\ About(WarningsOf("include_escapes"))
          = SelectSeq(Visited, LAMBDA e : ~Within(Target(e), RootDirectory))
    /\ (pc = "fatal" /\ include # <<>>) =>
          /\ Within(Target(Head(include)), RootDirectory)
          /\ Target(Head(include)) \notin DOMAIN Disk
    /\ pc \in {"loaded", "process", "publish", "done"} => Visited = Listed

\* C3 witness: "../x.yaml" was skipped with the warning and the entry after
\* it, "a.yaml", was then merged.
C3_Witness ==
    /\ pc = "loaded"
    /\ Listed = << <<".", ".", "/", "x", ".", "y", "a", "m", "l">>, <<"a", ".", "y", "a", "m", "l">> >>
    /\ About(WarningsOf("include_escapes")) = << <<".", ".", "/", "x", ".", "y", "a", "m", "l">> >>
    /\ opened = {Target(<<"a", ".", "y", "a", "m", "l">>)}
    /\ DictHas(tables, <<"a", "/", "k">>)

\* C6 as stated: qualifying the included keys makes a collision across
\* documents impossible: no key of one document is overwritten by a key
\* merged from another.
C6_NoOverwriteAcrossDocuments == lost = {}

\* The key an included file's key is merged under
QualifiedKey(path, key) == Stem(path) \o <<"/">> \o key

KeysOfFile(path) == {Disk[path][n][1] : n \in 1..Len(Disk[path])}

\* The last visited entry that merges the key
LastMerging(key) ==
    Max({n \in 1..Len(Visited) :
            /\ Target(Visited[n]) \in opened
            /\ \E k \in KeysOfFile(Target(Visited[n])) : QualifiedKey(Target(Visited[n]), k) = key})

\* C6 amended: every included key is merged as "<stem>/<key>", and a key of
\* one document is overwritten by a key merged from another only when the two
\* are spelled the same: a root key that reads "<stem>/<key>" of a merged
\* file, or two merged files with the same stem that define the same key; the
\* last merged document then wins. With merged files of distinct stems and no
\* root key of that form, nothing is overwritten.
C6_OverwriteOnlyOnEqualQualifiedKeys ==
    /\ \A n \in 1..Len(merged) :
          merged[n][2] # RootSource =>
             /\ \E k \in KeysOfFile(merged[n][2]) :
                   /\ merged[n][1] = QualifiedKey(merged[n][2], k)
                   /\ DictGet(input_data, merged[n][1]) = DictGet(Disk[merged[n][2]], k)
             /\ merged[n][2] = Target(Visited[LastMerging(merged[n][1])])
    /\ \A l \in lost :
          /\ \E k \in KeysOfFile(l.by) : l.key = QualifiedKey(l.by, k)
          /\ \/ l.of = RootSource /\ DictHas(root_doc, l.key)
             \/ l.of # RootSource /\ Stem(l.of) = Stem(l.by)
                   /\ \E k \in KeysOfFile(l.of) : l.key = QualifiedKey(l.of, k)
    /\ (/\ \A p, q \in opened : p # q => Stem(p) # Stem(q)
        /\ \A p \in opened : \A k \in KeysOfFile(p) : ~DictHas(root_doc, QualifiedKey(p, k)))
       => lost = {}

\* C6 witness: two merged files with the stem "a" both define "k", and the
\* key of the first was overwritten by the second.
C6_Witness ==
    /\ pc = "loaded"
    /\ Listed = << <<"a", ".", "y", "a", "m", "l">>, <<"s", "/", "a", ".", "y", "a", "m", "l">> >>
    /\ lost = {[key |-> <<"a", "/", "k">>, of |-> Target(<<"a", ".", "y", "a", "m", "l">>), by |-> Target(<<"s", "/", "a", ".", "y", "a", "m", "l">>)]}
    /\ DictGet(tables, <<"a", "/", "k">>) = DictGet(Disk[Target(<<"s", "/", "a", ".", "y", "a", "m", "l">>)], <<"k">>)

----------------------------------------------------------------------------
(* Properties of the publisher (under Spec)                                *)

\* The tables the loop of process is past, in iteration order
Handled ==
    IF pc \in {"process", "publish", "done", "fatal"}
    THEN SubSeq(tables, 1, Len(tables) - Len(todo))
    ELSE <<>>

\* The resolved destination of a table's artifact
Destination(name) == Resolve(Join(OutputDirectory, name \o <<".", "r", "s", "t">>))

TableWrites == SelectSeq(writes, LAMBDA w : ~w.index)
NotIndex(ts) == SelectSeq(ts, LAMBDA t : t[1] # <<"i", "n", "d", "e", "x">>)

IndexFile == [abs |-> TRUE, parts |-> << <<"w">>, <<"o">>, <<"i", "n", "d", "e", "x", ".", "r", "s", "t">> >>]

\* compose(sections), as a file's content
Composed ==
    RstText(Concat([n \in 1..Len(sections) |-> FragmentOf(macros, sections[n])]))

\* C10: index.rst is written after every table artifact and before the
\* renderer is invoked; so whenever publish completes, index.rst holds
\* compose(sections) and the renderer has read that, also when a table not
\* named "index" has its destination at outputDir/index.rst.
C10_IndexWrittenLastBeforeRendering ==
    /\ \A n \in 1..Len(writes) :
          writes[n].index =>
             /\ n = Len(writes)
             /\ writes[n].to = IndexFile
             /\ Len(TableWrites) = Len(NotIndex(tables))
             /\ todo = <<>>
    /\ published # <<>> =>
          /\ writes # <<>> /\ writes[Len(writes)].index
          /\ published[1].source_path = IndexFile
          /\ published[1].read = Composed
    /\ pc = "done" =>
          /\ published # <<>>
          /\ files[IndexFile] = Composed

\* C10 witness: the run is over, and a table was written to outputDir/index.rst.
C10_Witness ==
    /\ pc = "done"
    /\ \E n \in 1..Len(writes) : ~writes[n].index /\ writes[n].to = IndexFile

====
